---- MODULE Spec2Model ----
(***************************************************************************)
(* Model of the warp-task-tracker core: the TaskTracker lifecycle          *)
(* operations on the persisted store {currentTask, history}, the           *)
(* in-memory session -> task map, the WarpSessionManager diff of observed  *)
(* sessions, and the Electron IPC handlers that wrap the manual            *)
(* operations.                                                             *)
(*                                                                         *)
(* Spec      : every handler runs to completion before the next starts     *)
(*             (each caller awaits its call).                              *)
(* SpecAsync : handlers are split at their await points (store read,       *)
(*             store write, probe call) and interleave freely, as Node's   *)
(*             event loop allows when callers do not await each other.     *)
(* SpecTicks : the monitoring loop alone, with overlapping runs of the      *)
(*             interval callback.                                          *)
(* SpecApi   : the TaskTracker methods called directly, one at a time,     *)
(*             and the tracker constructed again over its data file.       *)
(* SpecFault : the session-bound operations when the store write or the    *)
(*             notification of some sessions throws.                       *)
(* SpecScenario : a manual task taken from start through its updates to    *)
(*             completion, each call awaited.                              *)
(* SpecProject : extractProjectName applied to working directories.        *)
(* SpecNotify : manual updates together with the desktop notification      *)
(*             they raise.                                                 *)
(***************************************************************************)
EXTENDS Integers, Sequences, FiniteSets, TLC

VARIABLES
    store,                  \* tasks.json: [currentTask, history]
    activeTasks,            \* TaskTracker.activeTasks: sessionId -> task
    lastKnownSessions,      \* WarpSessionManager.lastKnownSessions (insertion-ordered Set)
    sessionPollingInterval, \* 0 = null, 1 = an interval timer is installed
    clock,                  \* Date.now(): number of task ids handed out so far
    updateCount,            \* number of progress updates applied so far
    out,                    \* what the handler step that ran last produced
    manual,                 \* the manual operation in flight (SpecAsync)
    sessionOp,              \* the session-bound operation in flight (SpecAsync)
    ticks                   \* the interval callbacks in flight (SpecAsync)

vars == <<store, activeTasks, lastKnownSessions, sessionPollingInterval, clock,
          updateCount, out, manual, sessionOp, ticks>>

----------------------------------------------------------------------------
(* Bounds and input domains *)

MaxTasks == 2
MaxUpdates == 2
MaxCoreUpdates == 1
MaxHistory == 2
MaxTicks == 2

Sessions == {"s1", "s2"}
Names == {"A", "B"}
Messages == {"", "m"}
Percentages == {-1, 0, 20, 100, 101}

\* the inputs the specifications of the whole system draw from
CoreNames == {"A"}
CoreMessages == {"m"}
CorePercentages == {-1, 20, 100}

\* the percentages the direct calls draw from: both boundaries of the
\* accepted range and their outer neighbours
ApiPercentages == {-1, 0, 100, 101}

----------------------------------------------------------------------------
(* Tasks *)

\* the JSON null / undefined task
Null ==
    [id |-> 0, name |-> "", progress |-> 0, updates |-> <<>>, status |-> "none",
     endTime |-> "absent", sessionId |-> "", completionMessage |-> ""]

\* mutant: a null test that never recognises the missing task
IsNullNever(t) == FALSE

IsNull(t) == t.id = 0

\* the task object literal of startTask
NewTask(id, name) ==
    [id |-> id, name |-> name, progress |-> 0, updates |-> <<>>,
     status |-> "in-progress", endTime |-> "absent", sessionId |-> "",
     completionMessage |-> ""]

\* the task object literal of createTaskForSession
NewSessionTask(id, s) ==
    [id |-> id, name |-> "auto", progress |-> 0, updates |-> <<>>,
     status |-> "in-progress", endTime |-> "absent", sessionId |-> s,
     completionMessage |-> ""]

InitData == [currentTask |-> Null, history |-> <<>>]

ToSet(seq) == {seq[i] : i \in DOMAIN seq}

Contains(seq, x) == \E i \in DOMAIN seq : seq[i] = x

MapSet(m, k, v) == [x \in DOMAIN m \cup {k} |-> IF x = k THEN v ELSE m[x]]

MapDelete(m, k) == [x \in DOMAIN m \ {k} |-> m[x]]

EmptyMap == [x \in {} |-> Null]

----------------------------------------------------------------------------
(* Outcomes *)

\* what a handler produced. For a tracker method: the branch taken (kind),
\* the task it displayed on the console (shown), the value it returned (ret,
\* Null for undefined), whether it threw, and what the IPC handler wrapping
\* it answered (ipc); for a session-bound operation of the public API the
\* session id it was called with (arg). For a poll: whether the probe failed, the snapshot the
\* diff was computed against (before), and the diff. For the monitoring
\* callback: whether a change report was delivered, and its task lists.
Outcome(op, kind, shown, ret, threw, ipc) ==
    [op |-> op, kind |-> kind, shown |-> shown, ret |-> ret, threw |-> threw,
     ipc |-> ipc, arg |-> "", failed |-> FALSE, before |-> <<>>, newSessions |-> <<>>,
     closedSessions |-> <<>>, allSessions |-> <<>>, delivered |-> FALSE,
     newTasks |-> <<>>, closedTasks |-> <<>>, notified |-> FALSE,
     workingDir |-> [prefix |-> "", parts |-> <<>>], projectName |-> ""]

NoOutcome == Outcome("none", "none", Null, Null, FALSE, "none")

SessionOutcome(op, kind, ret, threw, sessionId) ==
    [Outcome(op, kind, Null, ret, threw, "none") EXCEPT !.arg = sessionId]

\* try { await tracker.method(); return {success: true} }
\* catch (error) { return {success: false} }
ipcHandle(threw) == IF threw THEN "failure" ELSE "success"

----------------------------------------------------------------------------
(* TaskTracker: the synchronous code between the store read and the store   *)
(* write of each manual operation, as a function of the loaded data         *)

startTaskData(data, id, name) ==
    [data EXCEPT !.currentTask = NewTask(id, name)]

\* mutant: an update that never lowers the progress
ApplyUpdateMonotone(task, percentage, message) ==
    [task EXCEPT !.progress = IF percentage > @ THEN percentage ELSE @,
                 !.updates = Append(@, [progress |-> percentage, message |-> message])]

ApplyUpdate(task, percentage, message) ==
    [task EXCEPT !.progress = percentage,
                 !.updates = Append(@, [progress |-> percentage, message |-> message])]

\* mutant: an update that records its entry in front of the earlier ones
updateProgressDataPrepends(data, percentage, message) ==
    [data EXCEPT !.currentTask =
        [@ EXCEPT !.progress = percentage,
                  !.updates = <<[progress |-> percentage, message |-> message]>> \o @]]

updateProgressData(data, percentage, message) ==
    [data EXCEPT !.currentTask = ApplyUpdate(@, percentage, message)]

\* mutant: completion that leaves the progress as it was
completeTaskDataKeepsProgress(data, message) ==
    LET task == [data.currentTask EXCEPT
                    !.endTime = "set", !.status = "completed",
                    !.completionMessage = IF message # "" THEN message ELSE @]
    IN  [currentTask |-> Null, history |-> <<task>> \o data.history]

completeTaskData(data, message) ==
    LET task == [data.currentTask EXCEPT
                    !.endTime = "set", !.status = "completed", !.progress = 100,
                    !.completionMessage = IF message # "" THEN message ELSE @]
    IN  [currentTask |-> Null, history |-> <<task>> \o data.history]

\* mutant: stop that forgets to change the status
stopTaskDataKeepsStatus(data) ==
    LET task == [data.currentTask EXCEPT !.endTime = "set"]
    IN  [currentTask |-> Null, history |-> <<task>> \o data.history]

\* mutant: stop that pushes the task at the end of history
stopTaskDataAppends(data) ==
    LET task == [data.currentTask EXCEPT !.endTime = "set", !.status = "stopped"]
    IN  [currentTask |-> Null, history |-> Append(data.history, task)]

stopTaskData(data) ==
    LET task == [data.currentTask EXCEPT !.endTime = "set", !.status = "stopped"]
    IN  [currentTask |-> Null, history |-> <<task>> \o data.history]

\* mutant: a range check that rejects the upper boundary
OutOfRangeOpenTop(percentage) == percentage < 0 \/ percentage >= 100

OutOfRange(percentage) == percentage < 0 \/ percentage > 100

\* mutant: a start that pre-empts the current task
startTaskConflictNever(data) == FALSE

\* startTask: if (data.currentTask) { ...; return; }
startTaskConflict(data) == ~IsNull(data.currentTask)

----------------------------------------------------------------------------
(* TaskTracker: session-bound operations                                    *)

\* mutant: a retire that sets the status and forgets the end time
retireMarkNoEndTime(task) == [task EXCEPT !.status = "stopped"]

\* handleClosedSession, first statements: the in-memory task is marked
\* stopped before the store is read
retireMark(task) == [task EXCEPT !.endTime = "set", !.status = "stopped"]

\* mutant: a retire that clears the current task whatever it is
retireDataClearsAlways(data, task, sessionId) ==
    [currentTask |-> Null, history |-> <<task>> \o data.history]

\* handleClosedSession, between the store read and the store write
retireData(data, task, sessionId) ==
    [currentTask |->
        IF ~IsNull(data.currentTask) /\ data.currentTask.sessionId = sessionId
        THEN Null ELSE data.currentTask,
     history |-> <<task>> \o data.history]

\* updateSessionTaskProgress, between the store read and the store write
updateSessionData(data, task, sessionId) ==
    IF ~IsNull(data.currentTask) /\ data.currentTask.sessionId = sessionId
    THEN [data EXCEPT !.currentTask = task]
    ELSE data

\* mutant: a switch that gives way to a task that is already current
switchDataRespectsCurrent(data, task) ==
    IF IsNull(data.currentTask) THEN [data EXCEPT !.currentTask = task] ELSE data

\* setCurrentTaskFromSession, between the store read and the store write
switchData(data, task) == [data EXCEPT !.currentTask = task]

\* mutant: a create that never looks the session up in the map
createTaskForSessionAlwaysNew(st, sessionId) ==
    LET newTask == NewSessionTask(st.clock + 1, sessionId)
    IN  [store |-> st.store,
         activeTasks |-> MapSet(st.activeTasks, sessionId, newTask),
         clock |-> st.clock + 1,
         task |-> newTask]

\* createTaskForSession on tracker state st = [store, activeTasks, clock]:
\* the has/get/set on the map run without an await in between
createTaskForSession(st, sessionId) ==
    IF sessionId \in DOMAIN st.activeTasks
    THEN [store |-> st.store, activeTasks |-> st.activeTasks, clock |-> st.clock,
          task |-> st.activeTasks[sessionId]]
    ELSE LET newTask == NewSessionTask(st.clock + 1, sessionId)
         IN  [store |-> st.store,
              activeTasks |-> MapSet(st.activeTasks, sessionId, newTask),
              clock |-> st.clock + 1,
              task |-> newTask]

\* mutant: a retire that, finding no bound task, still clears a current task
\* carrying the session id
handleClosedSessionClearsStale(st, sessionId) ==
    IF sessionId \notin DOMAIN st.activeTasks
    THEN [store |-> [st.store EXCEPT !.currentTask =
                        IF @.sessionId = sessionId THEN Null ELSE @],
          activeTasks |-> st.activeTasks, clock |-> st.clock, task |-> Null]
    ELSE LET task == retireMark(st.activeTasks[sessionId])
         IN  [store |-> retireData(st.store, task, sessionId),
              activeTasks |-> MapDelete(st.activeTasks, sessionId),
              clock |-> st.clock,
              task |-> task]

\* handleClosedSession run to completion on tracker state st
handleClosedSession(st, sessionId) ==
    IF sessionId \notin DOMAIN st.activeTasks
    THEN [store |-> st.store, activeTasks |-> st.activeTasks, clock |-> st.clock,
          task |-> Null]
    ELSE LET task == retireMark(st.activeTasks[sessionId])
         IN  [store |-> retireData(st.store, task, sessionId),
              activeTasks |-> MapDelete(st.activeTasks, sessionId),
              clock |-> st.clock,
              task |-> task]

----------------------------------------------------------------------------
(* WarpSessionManager                                                       *)

\* the orders in which a probe can list any subset of the sessions
Orderings ==
    {q \in UNION {[1..n -> Sessions] : n \in 0..Cardinality(Sessions)} :
        \A i, j \in DOMAIN q : i # j => q[i] # q[j]}

ProbeResults ==
    {[failed |-> TRUE, sessions |-> <<>>]} \cup
    {[failed |-> FALSE, sessions |-> q] : q \in Orderings}

\* getWarpSessions: the catch block turns a failed probe into an empty list
getWarpSessions(probe) == IF probe.failed THEN <<>> ELSE probe.sessions

\* mutant: a diff that reports every known session as closed
detectSessionChangesAllClosed(known, currentSessions) ==
    [newSessions |-> SelectSeq(currentSessions, LAMBDA s : ~Contains(known, s)),
     closedSessions |-> known,
     allSessions |-> currentSessions,
     lastKnownSessions |-> currentSessions]

\* mutant: a diff whose closed sessions are computed after the snapshot has
\* been replaced
detectSessionChangesTorn(known, currentSessions) ==
    [newSessions |-> SelectSeq(currentSessions, LAMBDA s : ~Contains(known, s)),
     closedSessions |-> SelectSeq(currentSessions,
                                  LAMBDA s : ~Contains(currentSessions, s)),
     allSessions |-> currentSessions,
     lastKnownSessions |-> currentSessions]

\* detectSessionChanges after the probe has returned currentSessions
detectSessionChanges(known, currentSessions) ==
    [newSessions |-> SelectSeq(currentSessions, LAMBDA s : ~Contains(known, s)),
     closedSessions |-> SelectSeq(known, LAMBDA s : ~Contains(currentSessions, s)),
     allSessions |-> currentSessions,
     lastKnownSessions |-> currentSessions]

PollOutcome(op, probe, known, changes) ==
    [Outcome(op, "polled", Null, Null, FALSE, "none") EXCEPT
        !.failed = probe.failed, !.before = known,
        !.newSessions = changes.newSessions,
        !.closedSessions = changes.closedSessions,
        !.allSessions = changes.allSessions]

\* mutant: a callback that never hands its report over
ReportOutcomeSilent(o, newTasks, closedTasks) == o

ReportOutcome(o, newTasks, closedTasks) ==
    [o EXCEPT !.delivered = TRUE, !.newTasks = newTasks,
              !.closedTasks = closedTasks]

----------------------------------------------------------------------------
(* The callback of startAutoTaskManagement, run to completion               *)

RECURSIVE CreateAll(_, _, _)
CreateAll(st, sessions, acc) ==
    IF sessions = <<>> THEN [st |-> st, tasks |-> acc]
    ELSE LET r == createTaskForSession(st, Head(sessions))
         IN  CreateAll([store |-> r.store, activeTasks |-> r.activeTasks,
                        clock |-> r.clock],
                       Tail(sessions),
                       IF IsNull(r.task) THEN acc ELSE Append(acc, r.task))

RECURSIVE RetireAll(_, _, _)
RetireAll(st, sessions, acc) ==
    IF sessions = <<>> THEN [st |-> st, tasks |-> acc]
    ELSE LET r == handleClosedSession(st, Head(sessions))
         IN  RetireAll([store |-> r.store, activeTasks |-> r.activeTasks,
                        clock |-> r.clock],
                       Tail(sessions),
                       IF IsNull(r.task) THEN acc ELSE Append(acc, r.task))

autoTaskCallback(st, changes) ==
    LET c == CreateAll(st, changes.newSessions, <<>>)
        r == RetireAll(c.st, changes.closedSessions, <<>>)
    IN  [st |-> r.st, newTasks |-> c.tasks, closedTasks |-> r.tasks]

Tracker == [store |-> store, activeTasks |-> activeTasks, clock |-> clock]

----------------------------------------------------------------------------
(* Operations in flight (used by SpecAsync; always idle under Spec)         *)

\* an operation between its store read and its store write: the data it is
\* about to save and the in-memory task it holds
IdleOp == [pc |-> "idle", op |-> "none", data |-> InitData, task |-> Null]

\* one run of the interval callback: the diff still to be acted on, the
\* task lists of its change report, and the task and data of the
\* handleClosedSession call it is in
IdleTick ==
    [pc |-> "idle", newSessions |-> <<>>, closedSessions |-> <<>>,
     newTasks |-> <<>>, closedTasks |-> <<>>, task |-> Null,
     data |-> InitData]

TickIds == 1..MaxTicks

Init ==
    /\ store = InitData
    /\ activeTasks = EmptyMap
    /\ lastKnownSessions = <<>>
    /\ sessionPollingInterval = 0
    /\ clock = 0
    /\ updateCount = 0
    /\ out = NoOutcome
    /\ manual = IdleOp
    /\ sessionOp = IdleOp
    /\ ticks = [t \in TickIds |-> IdleTick]

inFlight == <<manual, sessionOp, ticks>>
registry == <<lastKnownSessions, sessionPollingInterval>>

----------------------------------------------------------------------------
(* Manual operations, each invoked through its IPC handler and run to       *)
(* completion                                                               *)

StartTask(name) ==
    /\ IF startTaskConflict(store)
       THEN /\ out' = Outcome("start", "conflict", store.currentTask, Null,
                              FALSE, ipcHandle(FALSE))
            /\ UNCHANGED <<store, clock>>
       ELSE /\ clock < MaxTasks
            /\ clock' = clock + 1
            /\ store' = startTaskData(store, clock + 1, name)
            /\ out' = Outcome("start", "ok", store'.currentTask, Null,
                              FALSE, ipcHandle(FALSE))
    /\ UNCHANGED <<activeTasks, updateCount, registry, inFlight>>

UpdateProgress(percentage, message) ==
    /\ IF IsNull(store.currentTask)
       THEN /\ out' = Outcome("update", "notfound", Null, Null, FALSE,
                              ipcHandle(FALSE))
            /\ UNCHANGED <<store, updateCount>>
       ELSE IF OutOfRange(percentage)
       THEN /\ out' = Outcome("update", "range", Null, Null, FALSE,
                              ipcHandle(FALSE))
            /\ UNCHANGED <<store, updateCount>>
       ELSE /\ updateCount < MaxUpdates
            /\ updateCount' = updateCount + 1
            /\ store' = updateProgressData(store, percentage, message)
            /\ out' = Outcome("update", "ok", store'.currentTask, Null, FALSE,
                              ipcHandle(FALSE))
    /\ UNCHANGED <<activeTasks, clock, registry, inFlight>>

CompleteTask(message) ==
    /\ IF IsNull(store.currentTask)
       THEN /\ out' = Outcome("complete", "notfound", Null, Null, FALSE,
                              ipcHandle(FALSE))
            /\ UNCHANGED store
       ELSE /\ Len(store.history) < MaxHistory
            /\ store' = completeTaskData(store, message)
            /\ out' = Outcome("complete", "ok", store'.history[1], Null, FALSE,
                              ipcHandle(FALSE))
    /\ UNCHANGED <<activeTasks, clock, updateCount, registry, inFlight>>

StopTask ==
    /\ IF IsNull(store.currentTask)
       THEN /\ out' = Outcome("stop", "notfound", Null, Null, FALSE,
                              ipcHandle(FALSE))
            /\ UNCHANGED store
       ELSE /\ Len(store.history) < MaxHistory
            /\ store' = stopTaskData(store)
            /\ out' = Outcome("stop", "ok", Null, Null, FALSE, ipcHandle(FALSE))
    /\ UNCHANGED <<activeTasks, clock, updateCount, registry, inFlight>>

----------------------------------------------------------------------------
(* Session-bound operations run to completion                               *)

CreateTaskForSession(sessionId) ==
    LET r == createTaskForSession(Tracker, sessionId)
    IN  /\ r.clock <= MaxTasks
        /\ activeTasks' = r.activeTasks
        /\ clock' = r.clock
        /\ store' = r.store
        /\ out' = Outcome("create",
                          IF sessionId \in DOMAIN activeTasks THEN "existing" ELSE "ok",
                          Null, r.task, FALSE, "none")
        /\ UNCHANGED <<updateCount, registry, inFlight>>

HandleClosedSession(sessionId) ==
    LET r == handleClosedSession(Tracker, sessionId)
    IN  /\ Len(r.store.history) <= MaxHistory
        /\ activeTasks' = r.activeTasks
        /\ store' = r.store
        /\ out' = SessionOutcome("retire", IF IsNull(r.task) THEN "noop" ELSE "ok",
                                 Null, FALSE, sessionId)
        /\ UNCHANGED <<clock, updateCount, registry, inFlight>>

UpdateSessionTaskProgress(sessionId, percentage, message) ==
    /\ IF sessionId \notin DOMAIN activeTasks
       THEN /\ out' = SessionOutcome("updateSession", "notfound", Null, TRUE,
                                     sessionId)
            /\ UNCHANGED <<store, activeTasks, updateCount>>
       ELSE IF OutOfRange(percentage)
       THEN /\ out' = SessionOutcome("updateSession", "range", Null, TRUE,
                                     sessionId)
            /\ UNCHANGED <<store, activeTasks, updateCount>>
       ELSE LET task == ApplyUpdate(activeTasks[sessionId], percentage, message)
            IN  /\ updateCount < MaxUpdates
                /\ updateCount' = updateCount + 1
                /\ activeTasks' = MapSet(activeTasks, sessionId, task)
                /\ store' = updateSessionData(store, task, sessionId)
                /\ out' = SessionOutcome("updateSession", "ok", task, FALSE,
                                         sessionId)
    /\ UNCHANGED <<clock, registry, inFlight>>

SetCurrentTaskFromSession(sessionId) ==
    /\ IF sessionId \notin DOMAIN activeTasks
       THEN /\ out' = SessionOutcome("switch", "notfound", Null, TRUE, sessionId)
            /\ UNCHANGED store
       ELSE /\ store' = switchData(store, activeTasks[sessionId])
            /\ out' = SessionOutcome("switch", "ok", activeTasks[sessionId],
                                     FALSE, sessionId)
    /\ UNCHANGED <<activeTasks, clock, updateCount, registry, inFlight>>

----------------------------------------------------------------------------
(* Session monitoring run to completion                                     *)

StartAutoTaskManagement ==
    /\ sessionPollingInterval' = 1
    /\ out' = Outcome("startMonitoring", "ok", Null, Null, FALSE, "none")
    /\ UNCHANGED <<store, activeTasks, lastKnownSessions, clock, updateCount,
                   inFlight>>

\* mutant: a stop that leaves the timer installed
StopAutoTaskManagementKeepsTimer ==
    /\ sessionPollingInterval' = sessionPollingInterval
    /\ out' = Outcome("stopMonitoring", "ok", Null, Null, FALSE, "none")
    /\ UNCHANGED <<store, activeTasks, lastKnownSessions, clock, updateCount,
                   inFlight>>

\* stopAutoTaskManagement -> stopSessionMonitoring: clearInterval and the
\* slot set to null; a callback already running is not touched
StopAutoTaskManagement ==
    /\ sessionPollingInterval' = 0
    /\ out' = Outcome("stopMonitoring", "ok", Null, Null, FALSE, "none")
    /\ UNCHANGED <<store, activeTasks, lastKnownSessions, clock, updateCount,
                   inFlight>>

\* one firing of the interval callback: detectSessionChanges, then the
\* callback of startAutoTaskManagement when the diff is not empty
MonitorTick(probe) ==
    /\ sessionPollingInterval = 1
    /\ LET changes == detectSessionChanges(lastKnownSessions, getWarpSessions(probe))
           r == autoTaskCallback(Tracker, changes)
           polled == PollOutcome("tick", probe, lastKnownSessions, changes)
       IN  /\ lastKnownSessions' = changes.lastKnownSessions
           /\ IF changes.newSessions # <<>> \/ changes.closedSessions # <<>>
              THEN /\ r.st.clock <= MaxTasks
                   /\ Len(r.st.store.history) <= MaxHistory
                   /\ store' = r.st.store
                   /\ activeTasks' = r.st.activeTasks
                   /\ clock' = r.st.clock
                   /\ out' = ReportOutcome(polled, r.newTasks, r.closedTasks)
              ELSE /\ out' = polled
                   /\ UNCHANGED <<store, activeTasks, clock>>
    /\ UNCHANGED <<sessionPollingInterval, updateCount, inFlight>>

\* scanAndCreateTasks: the same diff, acted on without a report callback
ScanAndCreateTasks(probe) ==
    LET changes == detectSessionChanges(lastKnownSessions, getWarpSessions(probe))
        r == autoTaskCallback(Tracker, changes)
    IN  /\ r.st.clock <= MaxTasks
        /\ Len(r.st.store.history) <= MaxHistory
        /\ lastKnownSessions' = changes.lastKnownSessions
        /\ out' = PollOutcome("scan", probe, lastKnownSessions, changes)
        /\ store' = r.st.store
        /\ activeTasks' = r.st.activeTasks
        /\ clock' = r.st.clock
        /\ UNCHANGED <<sessionPollingInterval, updateCount, inFlight>>

\* The whole system, every handler run to completion: the manual operations
\* behind their IPC handlers, the session-bound operations of the public API,
\* and the monitoring timer; createTaskForSession and handleClosedSession run
\* where the repository calls them, inside the tick and the scan.
Next ==
    \/ \E name \in CoreNames : StartTask(name)
    \/ \E p \in CorePercentages, m \in CoreMessages :
          updateCount < MaxCoreUpdates /\ UpdateProgress(p, m)
    \/ \E m \in CoreMessages : CompleteTask(m)
    \/ StopTask
    \/ \E s \in Sessions, p \in CorePercentages, m \in CoreMessages :
          updateCount < MaxCoreUpdates /\ UpdateSessionTaskProgress(s, p, m)
    \/ \E s \in Sessions : SetCurrentTaskFromSession(s)
    \/ StartAutoTaskManagement
    \/ StopAutoTaskManagement
    \/ \E probe \in ProbeResults : MonitorTick(probe)
    \/ \E probe \in ProbeResults : ScanAndCreateTasks(probe)

Spec == Init /\ [][Next]_vars

----------------------------------------------------------------------------
(* The session-bound operations when I/O fails (SpecFault)                  *)

\* createTaskForSession when the notification after activeTasks.set
\* throws: the catch block returns null, the map keeps the new task.
\* A session already bound returns before the notification.
createTaskForSessionIO(st, sessionId, fails) ==
    LET r == createTaskForSession(st, sessionId)
    IN  IF fails /\ sessionId \notin DOMAIN st.activeTasks
        THEN [r EXCEPT !.task = Null]
        ELSE r

\* handleClosedSession when saveData throws: the in-memory task has been
\* marked stopped, the catch block logs, the store is as it was and
\* activeTasks.delete is not reached. task is what activeTasks.get returned
\* to the caller before the call, seen after it.
handleClosedSessionIO(st, sessionId, fails) ==
    IF fails /\ sessionId \in DOMAIN st.activeTasks
    THEN LET task == retireMark(st.activeTasks[sessionId])
         IN  [store |-> st.store,
              activeTasks |-> MapSet(st.activeTasks, sessionId, task),
              clock |-> st.clock,
              task |-> task]
    ELSE handleClosedSession(st, sessionId)

RECURSIVE CreateAllIO(_, _, _, _)
CreateAllIO(st, sessions, acc, failing) ==
    IF sessions = <<>> THEN [st |-> st, tasks |-> acc]
    ELSE LET r == createTaskForSessionIO(st, Head(sessions),
                                         Head(sessions) \in failing)
         IN  CreateAllIO([store |-> r.store, activeTasks |-> r.activeTasks,
                          clock |-> r.clock],
                         Tail(sessions),
                         IF IsNull(r.task) THEN acc ELSE Append(acc, r.task),
                         failing)

\* mutant: a loop that an error in one session's retire ends
RECURSIVE RetireAllIOAborts(_, _, _, _)
RetireAllIOAborts(st, sessions, acc, failing) ==
    IF sessions = <<>> THEN [st |-> st, tasks |-> acc]
    ELSE LET r == handleClosedSessionIO(st, Head(sessions),
                                        Head(sessions) \in failing)
             next == [store |-> r.store, activeTasks |-> r.activeTasks,
                      clock |-> r.clock]
             tasks == IF IsNull(r.task) THEN acc ELSE Append(acc, r.task)
         IN  IF Head(sessions) \in failing
             THEN [st |-> next, tasks |-> tasks]
             ELSE RetireAllIOAborts(next, Tail(sessions), tasks, failing)

RECURSIVE RetireAllIO(_, _, _, _)
RetireAllIO(st, sessions, acc, failing) ==
    IF sessions = <<>> THEN [st |-> st, tasks |-> acc]
    ELSE LET r == handleClosedSessionIO(st, Head(sessions),
                                        Head(sessions) \in failing)
         IN  RetireAllIO([store |-> r.store, activeTasks |-> r.activeTasks,
                          clock |-> r.clock],
                         Tail(sessions),
                         IF IsNull(r.task) THEN acc ELSE Append(acc, r.task),
                         failing)

autoTaskCallbackIO(st, changes, failing) ==
    LET c == CreateAllIO(st, changes.newSessions, <<>>, failing)
        r == RetireAllIO(c.st, changes.closedSessions, <<>>, failing)
    IN  [st |-> r.st, newTasks |-> c.tasks, closedTasks |-> r.tasks]

\* one firing of the interval callback during which the notification or
\* the store write done for the sessions in failing throws
MonitorTickIO(probe, failing) ==
    /\ sessionPollingInterval = 1
    /\ LET changes == detectSessionChanges(lastKnownSessions, getWarpSessions(probe))
           r == autoTaskCallbackIO(Tracker, changes, failing)
           polled == PollOutcome("tick", probe, lastKnownSessions, changes)
       IN  /\ lastKnownSessions' = changes.lastKnownSessions
           /\ IF changes.newSessions # <<>> \/ changes.closedSessions # <<>>
              THEN /\ r.st.clock <= MaxTasks
                   /\ Len(r.st.store.history) <= MaxHistory
                   /\ store' = r.st.store
                   /\ activeTasks' = r.st.activeTasks
                   /\ clock' = r.st.clock
                   /\ out' = ReportOutcome(polled, r.newTasks, r.closedTasks)
              ELSE /\ out' = polled
                   /\ UNCHANGED <<store, activeTasks, clock>>
    /\ UNCHANGED <<sessionPollingInterval, updateCount, inFlight>>

\* handleClosedSession called directly, saveData throwing
HandleClosedSessionSaveFails(sessionId) ==
    /\ sessionId \in DOMAIN activeTasks
    /\ LET r == handleClosedSessionIO(Tracker, sessionId, TRUE)
       IN  /\ activeTasks' = r.activeTasks
           /\ store' = r.store
    /\ out' = SessionOutcome("retire", "failed", Null, FALSE, sessionId)
    /\ UNCHANGED <<clock, updateCount, registry, inFlight>>

\* updateSessionTaskProgress on the current task's session, saveData
\* throwing: the map's task has been updated before the store is read
UpdateSessionTaskProgressSaveFails(sessionId, percentage, message) ==
    /\ sessionId \in DOMAIN activeTasks
    /\ ~OutOfRange(percentage)
    /\ ~IsNull(store.currentTask)
    /\ store.currentTask.sessionId = sessionId
    /\ updateCount < MaxUpdates
    /\ updateCount' = updateCount + 1
    /\ activeTasks' = MapSet(activeTasks, sessionId,
                             ApplyUpdate(activeTasks[sessionId], percentage, message))
    /\ out' = SessionOutcome("updateSession", "failed", Null, TRUE, sessionId)
    /\ UNCHANGED <<store, clock, registry, inFlight>>

\* setCurrentTaskFromSession, saveData throwing
SetCurrentTaskFromSessionSaveFails(sessionId) ==
    /\ sessionId \in DOMAIN activeTasks
    /\ out' = SessionOutcome("switch", "failed", Null, TRUE, sessionId)
    /\ UNCHANGED <<store, activeTasks, clock, updateCount, registry, inFlight>>

NextFault ==
    \/ StartAutoTaskManagement
    \/ \E probe \in ProbeResults, failing \in SUBSET Sessions :
          MonitorTickIO(probe, failing)
    \/ \E s \in Sessions : SetCurrentTaskFromSession(s)
    \/ \E s \in Sessions : HandleClosedSessionSaveFails(s)
    \/ \E s \in Sessions, p \in CorePercentages, m \in CoreMessages :
          UpdateSessionTaskProgressSaveFails(s, p, m)
    \/ \E s \in Sessions : SetCurrentTaskFromSessionSaveFails(s)

SpecFault == Init /\ [][NextFault]_vars

----------------------------------------------------------------------------
(* A manual task's whole life, each call awaited before the next            *)
(* (SpecScenario)                                                           *)

\* the manual handlers run to completion on the data they load, rejected
\* calls leaving the data as loaded
startTaskRun(data, id, name) ==
    IF startTaskConflict(data) THEN data ELSE startTaskData(data, id, name)

updateProgressRun(data, percentage, message) ==
    IF IsNull(data.currentTask) \/ OutOfRange(percentage) THEN data
    ELSE updateProgressData(data, percentage, message)

completeTaskRun(data, message) ==
    IF IsNull(data.currentTask) THEN data ELSE completeTaskData(data, message)

RECURSIVE updateProgressAll(_, _)
updateProgressAll(data, calls) ==
    IF calls = <<>> THEN data
    ELSE updateProgressAll(
            updateProgressRun(data, Head(calls).progress, Head(calls).message),
            Tail(calls))

\* the update calls of a scenario: in-range percentages, any message
ValidUpdates ==
    {[progress |-> p, message |-> m] :
        p \in {q \in Percentages : ~OutOfRange(q)}, m \in Messages}

UpdateSequences == UNION {[1..n -> ValidUpdates] : n \in 0..MaxUpdates}

\* startTask(name), updateProgress for each call in order, completeTask(message),
\* with nothing else in between
StartUpdateComplete(name, calls, message) ==
    /\ IsNull(store.currentTask)
    /\ clock < MaxTasks
    /\ Len(store.history) < MaxHistory
    /\ clock' = clock + 1
    /\ store' = completeTaskRun(
                    updateProgressAll(startTaskRun(store, clock + 1, name), calls),
                    message)
    /\ out' = Outcome("complete", "ok", store'.history[1], Null, FALSE,
                      ipcHandle(FALSE))
    /\ UNCHANGED <<activeTasks, updateCount, registry, inFlight>>

NextScenario ==
    \E name \in Names, calls \in UpdateSequences, message \in Messages :
        StartUpdateComplete(name, calls, message)

SpecScenario == Init /\ [][NextScenario]_vars

----------------------------------------------------------------------------
(* The TaskTracker methods called directly, one call at a time (SpecApi)    *)

\* the process exits and a new TaskTracker is constructed: the data file is
\* kept (initializeData writes it only when it does not exist), the map and
\* the session manager start empty
Restart ==
    /\ activeTasks' = EmptyMap
    /\ lastKnownSessions' = <<>>
    /\ sessionPollingInterval' = 0
    /\ out' = Outcome("restart", "ok", Null, Null, FALSE, "none")
    /\ UNCHANGED <<store, clock, updateCount, inFlight>>

NextApi ==
    \/ \E name \in CoreNames : StartTask(name)
    \/ \E p \in ApiPercentages, m \in CoreMessages : UpdateProgress(p, m)
    \/ \E m \in CoreMessages : CompleteTask(m)
    \/ StopTask
    \/ \E s \in Sessions : CreateTaskForSession(s)
    \/ \E s \in Sessions : HandleClosedSession(s)
    \/ \E s \in Sessions, p \in ApiPercentages, m \in CoreMessages :
          UpdateSessionTaskProgress(s, p, m)
    \/ \E s \in Sessions : SetCurrentTaskFromSession(s)
    \/ Restart

SpecApi == Init /\ [][NextApi]_vars

----------------------------------------------------------------------------
(* The same handlers split at their await points (SpecAsync). A store read  *)
(* and the synchronous code that follows it are one step, the store write   *)
(* and the code that follows it another; the probe call is in flight        *)
(* between the timer firing and the diff. A step that hands nothing to a    *)
(* caller leaves out empty.                                                 *)

trackerState == <<store, activeTasks, clock, updateCount>>

AsyncStartTask(name) ==
    /\ manual.pc = "idle"
    /\ IF startTaskConflict(store)
       THEN /\ out' = Outcome("start", "conflict", store.currentTask, Null,
                              FALSE, ipcHandle(FALSE))
            /\ UNCHANGED <<manual, clock>>
       ELSE /\ clock < MaxTasks
            /\ clock' = clock + 1
            /\ manual' = [IdleOp EXCEPT !.pc = "saving", !.op = "start",
                            !.data = startTaskData(store, clock + 1, name)]
            /\ out' = NoOutcome
    /\ UNCHANGED <<store, activeTasks, updateCount, registry, sessionOp, ticks>>

AsyncCompleteTask(message) ==
    /\ manual.pc = "idle"
    /\ IF IsNull(store.currentTask)
       THEN /\ out' = Outcome("complete", "notfound", Null, Null, FALSE,
                              ipcHandle(FALSE))
            /\ UNCHANGED manual
       ELSE /\ Len(store.history) < MaxHistory
            /\ manual' = [IdleOp EXCEPT !.pc = "saving", !.op = "complete",
                            !.data = completeTaskData(store, message)]
            /\ out' = NoOutcome
    /\ UNCHANGED <<trackerState, registry, sessionOp, ticks>>

AsyncStopTask ==
    /\ manual.pc = "idle"
    /\ IF IsNull(store.currentTask)
       THEN /\ out' = Outcome("stop", "notfound", Null, Null, FALSE,
                              ipcHandle(FALSE))
            /\ UNCHANGED manual
       ELSE /\ Len(store.history) < MaxHistory
            /\ manual' = [IdleOp EXCEPT !.pc = "saving", !.op = "stop",
                            !.data = stopTaskData(store)]
            /\ out' = NoOutcome
    /\ UNCHANGED <<trackerState, registry, sessionOp, ticks>>

\* saveData of the manual operation in flight resolves
ManualSave ==
    /\ manual.pc = "saving"
    /\ store' = manual.data
    /\ out' = Outcome(manual.op, "ok",
                      IF manual.op = "start" THEN manual.data.currentTask
                      ELSE IF manual.op = "complete" THEN manual.data.history[1]
                      ELSE Null,
                      Null, FALSE, ipcHandle(FALSE))
    /\ manual' = IdleOp
    /\ UNCHANGED <<activeTasks, clock, updateCount, registry, sessionOp, ticks>>

AsyncSetCurrentTaskFromSession(sessionId) ==
    /\ sessionOp.pc = "idle"
    /\ IF sessionId \notin DOMAIN activeTasks
       THEN /\ out' = SessionOutcome("switch", "notfound", Null, TRUE, sessionId)
            /\ UNCHANGED sessionOp
       ELSE /\ sessionOp' = [IdleOp EXCEPT !.pc = "saving", !.op = "switch",
                               !.task = activeTasks[sessionId],
                               !.data = switchData(store, activeTasks[sessionId])]
            /\ out' = NoOutcome
    /\ UNCHANGED <<trackerState, registry, manual, ticks>>

\* saveData of the session-bound operation in flight resolves
SessionSave ==
    /\ sessionOp.pc = "saving"
    /\ store' = sessionOp.data
    /\ out' = SessionOutcome(sessionOp.op, "ok", sessionOp.task, FALSE,
                             sessionOp.task.sessionId)
    /\ sessionOp' = IdleOp
    /\ UNCHANGED <<activeTasks, clock, updateCount, registry, manual, ticks>>

\* mutant: a timer callback that waits for the runs in flight
TimerFiresOneAtATime(t) ==
    /\ sessionPollingInterval = 1
    /\ \A u \in TickIds : ticks[u].pc = "idle"
    /\ ticks[t].pc = "idle"
    /\ \A u \in TickIds : u < t => ticks[u].pc # "idle"
    /\ ticks' = [ticks EXCEPT ![t].pc = "probing"]
    /\ out' = NoOutcome
    /\ UNCHANGED <<store, activeTasks, clock, updateCount, lastKnownSessions,
                   sessionPollingInterval, manual, sessionOp>>

\* the interval timer fires: its callback starts and calls the probe
TimerFires(t) ==
    /\ sessionPollingInterval = 1
    /\ ticks[t].pc = "idle"
    /\ \A u \in TickIds : u < t => ticks[u].pc # "idle"
    /\ ticks' = [ticks EXCEPT ![t].pc = "probing"]
    /\ out' = NoOutcome
    /\ UNCHANGED <<trackerState, registry, manual, sessionOp>>

\* the probe of tick t returns: the diff against the snapshot as it is now
ProbeReturns(t, probe) ==
    /\ ticks[t].pc = "probing"
    /\ LET changes == detectSessionChanges(lastKnownSessions, getWarpSessions(probe))
       IN  /\ lastKnownSessions' = changes.lastKnownSessions
           /\ out' = PollOutcome("tick", probe, lastKnownSessions, changes)
           /\ ticks' = [ticks EXCEPT ![t] =
                 IF changes.newSessions = <<>> /\ changes.closedSessions = <<>>
                 THEN IdleTick
                 ELSE [IdleTick EXCEPT !.pc = "acting",
                                       !.newSessions = changes.newSessions,
                                       !.closedSessions = changes.closedSessions]]
    /\ UNCHANGED <<trackerState, sessionPollingInterval, manual, sessionOp>>

\* the callback of tick t creates the task of its next appeared session
TickCreate(t) ==
    /\ ticks[t].pc = "acting"
    /\ ticks[t].newSessions # <<>>
    /\ LET r == createTaskForSession(Tracker, Head(ticks[t].newSessions))
       IN  /\ r.clock <= MaxTasks
           /\ activeTasks' = r.activeTasks
           /\ clock' = r.clock
           /\ out' = Outcome("create",
                             IF r.clock = clock THEN "existing" ELSE "ok",
                             Null, r.task, FALSE, "none")
           /\ ticks' = [ticks EXCEPT
                 ![t].newSessions = Tail(@),
                 ![t].newTasks = IF IsNull(r.task) THEN @ ELSE Append(@, r.task)]
    /\ UNCHANGED <<store, updateCount, registry, manual, sessionOp>>

\* handleClosedSession of tick t, up to its loadData call: the in-memory
\* task is marked stopped
TickRetireMark(t) ==
    /\ ticks[t].pc = "acting"
    /\ ticks[t].newSessions = <<>>
    /\ ticks[t].closedSessions # <<>>
    /\ LET s == Head(ticks[t].closedSessions)
       IN  IF s \notin DOMAIN activeTasks
           THEN /\ ticks' = [ticks EXCEPT ![t].closedSessions = Tail(@)]
                /\ out' = SessionOutcome("retire", "noop", Null, FALSE, s)
                /\ UNCHANGED activeTasks
           ELSE /\ activeTasks' = MapSet(activeTasks, s, retireMark(activeTasks[s]))
                /\ ticks' = [ticks EXCEPT
                      ![t].pc = "retireRead",
                      ![t].task = retireMark(activeTasks[s]),
                      ![t].closedTasks = Append(@, retireMark(activeTasks[s]))]
                /\ out' = NoOutcome
    /\ UNCHANGED <<store, clock, updateCount, registry, manual, sessionOp>>

\* handleClosedSession of tick t: loadData resolves, the task is put at the
\* head of the loaded history and saveData is called
TickRetireRead(t) ==
    /\ ticks[t].pc = "retireRead"
    /\ Len(store.history) < MaxHistory
    /\ ticks' = [ticks EXCEPT
          ![t].pc = "retireWrite",
          ![t].data = retireData(store, ticks[t].task, Head(ticks[t].closedSessions))]
    /\ out' = NoOutcome
    /\ UNCHANGED <<trackerState, registry, manual, sessionOp>>

\* handleClosedSession of tick t: saveData resolves and the session is
\* deleted from the map
TickRetireWrite(t) ==
    /\ ticks[t].pc = "retireWrite"
    /\ store' = ticks[t].data
    /\ activeTasks' = MapDelete(activeTasks, Head(ticks[t].closedSessions))
    /\ ticks' = [ticks EXCEPT ![t].pc = "acting", ![t].closedSessions = Tail(@),
                              ![t].task = Null, ![t].data = InitData]
    /\ out' = SessionOutcome("retire", "ok", Null, FALSE,
                             Head(ticks[t].closedSessions))
    /\ UNCHANGED <<clock, updateCount, registry, manual, sessionOp>>

\* the callback of tick t hands its change report to the consumer
TickReport(t) ==
    /\ ticks[t].pc = "acting"
    /\ ticks[t].newSessions = <<>>
    /\ ticks[t].closedSessions = <<>>
    /\ out' = ReportOutcome(Outcome("report", "ok", Null, Null, FALSE, "none"),
                            ticks[t].newTasks, ticks[t].closedTasks)
    /\ ticks' = [ticks EXCEPT ![t] = IdleTick]
    /\ UNCHANGED <<trackerState, registry, manual, sessionOp>>

\* Store races: one manual operation, one switchCurrent and one tick at a
\* time, each split at its awaits, monitoring once started staying on.
NextAsync ==
    \/ \E name \in CoreNames : AsyncStartTask(name)
    \/ \E m \in CoreMessages : AsyncCompleteTask(m)
    \/ AsyncStopTask
    \/ ManualSave
    \/ \E s \in Sessions : AsyncSetCurrentTaskFromSession(s)
    \/ SessionSave
    \/ StartAutoTaskManagement
    \/ TimerFires(1)
    \/ \E probe \in ProbeResults : ProbeReturns(1, probe)
    \/ TickCreate(1)
    \/ TickRetireMark(1)
    \/ TickRetireRead(1)
    \/ TickRetireWrite(1)
    \/ TickReport(1)

SpecAsync == Init /\ [][NextAsync]_vars

\* The monitoring loop alone: up to MaxTicks runs of the interval callback
\* in flight, the timer started and stopped at will.
NextTicks ==
    \/ StartAutoTaskManagement
    \/ StopAutoTaskManagement
    \/ \E t \in TickIds : TimerFires(t)
    \/ \E t \in TickIds, probe \in ProbeResults : ProbeReturns(t, probe)
    \/ \E t \in TickIds : TickCreate(t)
    \/ \E t \in TickIds : TickRetireMark(t)
    \/ \E t \in TickIds : TickRetireRead(t)
    \/ \E t \in TickIds : TickRetireWrite(t)
    \/ \E t \in TickIds : TickReport(t)

SpecTicks == Init /\ [][NextTicks]_vars

----------------------------------------------------------------------------
(* Properties of the whole system, handlers run to completion (Spec)        *)

ManualOps == {"start", "update", "complete", "stop"}
PollOps == {"tick", "scan"}

InProgressInStore ==
    (IF store.currentTask.status = "in-progress" THEN 1 ELSE 0)
    + Cardinality({i \in DOMAIN store.history :
                      store.history[i].status = "in-progress"})

\* C1: single-current invariant. The store has one current slot, and after
\* any sequence of start, update, complete, stop, switchCurrent,
\* updateForSession and Reconciler create/retire calls at most one task
\* recorded in the store (current slot and history together) has status
\* in-progress: no second in-progress task sits beside the current one.
SingleCurrent == InProgressInStore <= 1

\* C1 witness: a task is current and in progress while another task has
\* already been retired into history
SingleCurrentWitness ==
    /\ store.currentTask.status = "in-progress"
    /\ Len(store.history) >= 1
    /\ store.history[1].id # store.currentTask.id

\* C4: probe failure isolation. When the probe fails during a poll, the poll
\* reports no appeared and no disappeared session and the snapshot of known
\* session ids after the poll equals the snapshot before it.
ProbeFailureIsolation ==
    (out.op \in PollOps /\ out.failed) =>
        /\ out.newSessions = <<>>
        /\ out.closedSessions = <<>>
        /\ lastKnownSessions = out.before

\* C5: start called while a current task B exists is rejected as a conflict
\* that carries B, creates no task and leaves the store unchanged.
StartConflictKeepsStore ==
    [][(out'.op = "start" /\ ~IsNull(store.currentTask)) =>
          /\ out'.kind = "conflict"
          /\ out'.shown = store.currentTask
          /\ store' = store
          /\ clock' = clock
          /\ activeTasks' = activeTasks]_vars

\* C5 witness: a start has just been rejected and the blocking task is
\* still current
StartConflictWitness ==
    /\ out.op = "start"
    /\ out.kind = "conflict"
    /\ ~IsNull(store.currentTask)
    /\ out.shown = store.currentTask

\* C6: a rejected manual operation (start with a current task, update with
\* no current task or a percentage outside 0..100, complete or stop with no
\* current task) is answered to its immediate caller, the IPC control
\* surface, with a failure result and never with a success result.
RejectedNeverSuccess ==
    (out.op \in ManualOps /\ out.kind \in {"conflict", "notfound", "range"}) =>
        out.ipc = "failure"

\* C8: diff completeness. For consecutive successful probe outputs S1 (the
\* snapshot left by the previous poll) and S2, the poll reports appeared =
\* S2 \ S1 and disappeared = S1 \ S2, each id once, and leaves the snapshot
\* equal to the ids of S2; on a first poll everything probed has appeared.
DiffCompleteness ==
    [][(out'.op \in PollOps /\ ~out'.failed) =>
          LET S1 == ToSet(lastKnownSessions)
              S2 == ToSet(out'.allSessions)
          IN  /\ ToSet(out'.newSessions) = S2 \ S1
              /\ ToSet(out'.closedSessions) = S1 \ S2
              /\ Len(out'.newSessions) = Cardinality(S2 \ S1)
              /\ Len(out'.closedSessions) = Cardinality(S1 \ S2)
              /\ ToSet(lastKnownSessions') = S2
              /\ (S1 = {} => out'.closedSessions = <<>> /\
                             out'.newSessions = out'.allSessions)]_vars

\* C8 witness: a successful poll has reported one session appeared and
\* another one disappeared
DiffCompletenessWitness ==
    /\ out.op \in PollOps
    /\ ~out.failed
    /\ out.newSessions # <<>>
    /\ out.closedSessions # <<>>
    /\ out.before # <<>>

Normalized(task, status) ==
    [task EXCEPT !.status = status, !.endTime = "set"]

\* C9: completion normalizes state. After complete succeeds on current task
\* T the store's current is null and history index 0 is T with progress 100,
\* status completed and endTime set, whatever T's progress was; the rest of
\* history is the previous history in the same order.
CompleteNormalizes ==
    [][(out'.op = "complete" /\ out'.kind = "ok") =>
          /\ ~IsNull(store.currentTask)
          /\ store'.currentTask = Null
          /\ Len(store'.history) = Len(store.history) + 1
          /\ Tail(store'.history) = store.history
          /\ LET T == store.currentTask
                 h == Head(store'.history)
             IN  /\ h.progress = 100
                 /\ h.status = "completed"
                 /\ h.endTime = "set"
                 /\ [h EXCEPT !.completionMessage = T.completionMessage]
                      = [Normalized(T, "completed") EXCEPT !.progress = 100]]_vars

\* C9 witness: a task whose last recorded progress was below 100 has just
\* been completed
CompleteNormalizesWitness ==
    /\ out.op = "complete"
    /\ out.kind = "ok"
    /\ Len(store.history) >= 1
    /\ store.history[1].updates # <<>>
    /\ store.history[1].updates[Len(store.history[1].updates)].progress < 100
    /\ store.history[1].progress = 100

\* C10: after stop succeeds on current task T the store's current is null
\* and history index 0 is T with status stopped, endTime set, and progress
\* and updates exactly as they were immediately before the stop.
StopKeepsProgress ==
    [][(out'.op = "stop" /\ out'.kind = "ok") =>
          /\ ~IsNull(store.currentTask)
          /\ store'.currentTask = Null
          /\ Len(store'.history) = Len(store.history) + 1
          /\ Tail(store'.history) = store.history
          /\ Head(store'.history) = Normalized(store.currentTask, "stopped")
          /\ Head(store'.history).progress = store.currentTask.progress
          /\ Head(store'.history).updates = store.currentTask.updates]_vars

\* C10 witness: a task with a recorded progress update has just been stopped
\* and sits at the head of a history that already held another task
StopKeepsProgressWitness ==
    /\ out.op = "stop"
    /\ out.kind = "ok"
    /\ Len(store.history) >= 2
    /\ store.history[1].status = "stopped"
    /\ store.history[1].updates # <<>>
    /\ store.history[1].progress = 20

----------------------------------------------------------------------------
(* Properties of interleaved handlers                                       *)

\* the history and the current task's id that the manual operation in
\* flight read from the store
ManualLoadedHistory ==
    IF manual.op = "start" THEN manual.data.history ELSE Tail(manual.data.history)

ManualLoadedCurrentId ==
    IF manual.op = "start" THEN 0 ELSE manual.data.history[1].id

\* C2: lifecycle operations are mutually exclusive on the store. A manual
\* operation holds the store and the current-task slot from its load to its
\* save: while it is in between, no session-bound operation (switchCurrent,
\* retireForSession) has changed what it loaded, so its save discards
\* nothing and the outcome is that of running the two one after the other.
StoreHeldExclusively ==
    manual.pc = "saving" =>
        /\ store.history = ManualLoadedHistory
        /\ store.currentTask.id = ManualLoadedCurrentId

\* C3: only one Reconciler tick is in flight at a time: a timer firing while
\* the previous tick's probe or store writes are outstanding starts no
\* second tick.
OneTickInFlight ==
    Cardinality({t \in TickIds : ticks[t].pc # "idle"}) <= 1

\* C7: idempotent session binding. A createForSession call for a session s
\* that is bound and not yet being retired returns the bound task's id, and
\* leaves the map, the store (history included) and the id counter as they
\* were; after any create the map holds for s exactly the task returned.
\* This holds for the calls of overlapping ticks as well.
IdempotentBinding ==
    [][out'.op = "create" =>
          LET s == out'.ret.sessionId
          IN  /\ s \in DOMAIN activeTasks'
              /\ activeTasks'[s] = out'.ret
              /\ (s \in DOMAIN activeTasks /\ activeTasks[s].status = "in-progress") =>
                    /\ out'.ret.id = activeTasks[s].id
                    /\ activeTasks' = activeTasks
                    /\ store' = store
                    /\ clock' = clock]_vars

\* C7 witness: a tick has called createForSession for a session that was
\* already bound to a task in progress, and got that task back
IdempotentBindingWitness ==
    /\ out.op = "create"
    /\ out.kind = "existing"
    /\ out.ret.status = "in-progress"
    /\ out.ret.sessionId \in DOMAIN activeTasks
    /\ activeTasks[out.ret.sessionId] = out.ret

----------------------------------------------------------------------------
(* Properties of the TaskTracker methods called directly (SpecApi)          *)

\* C11: update, complete and stop invoked when the store has no current
\* task each end in the not-found outcome and leave the store (current null,
\* history) and the session -> task map unchanged.
NotFoundKeepsState ==
    [][(out'.op \in {"update", "complete", "stop"} /\ store.currentTask = Null) =>
          /\ out'.kind = "notfound"
          /\ store' = store
          /\ activeTasks' = activeTasks]_vars

\* C11 witness: a manual operation has just found no current task, in a
\* state with a non-empty history and a bound session task to preserve
NotFoundWitness ==
    /\ out.op \in {"update", "complete", "stop"}
    /\ out.kind = "notfound"
    /\ store.currentTask = Null
    /\ store.history # <<>>
    /\ DOMAIN activeTasks # {}

AllTasks ==
    {store.currentTask} \cup ToSet(store.history)
        \cup {activeTasks[s] : s \in DOMAIN activeTasks}

\* C12: progress bounds. With a current task present update(p, m), and with
\* a task bound to s updateForSession(s, p, m), is rejected with the range
\* error for every p < 0 or p > 100 and leaves progress and updates as they
\* were; it succeeds for every p in 0..100, the boundaries 0 and 100
\* included. Every task in current, the map and history has progress in
\* 0..100.
ProgressBounds ==
    [][/\ \A p \in ApiPercentages, m \in CoreMessages :
            (UpdateProgress(p, m) /\ store.currentTask # Null) =>
                IF p < 0 \/ p > 100
                THEN /\ out'.kind = "range"
                     /\ store' = store
                     /\ activeTasks' = activeTasks
                ELSE /\ out'.kind = "ok"
                     /\ store'.currentTask.progress = p
       /\ \A s \in DOMAIN activeTasks, p \in ApiPercentages, m \in CoreMessages :
            UpdateSessionTaskProgress(s, p, m) =>
                IF p < 0 \/ p > 100
                THEN /\ out'.kind = "range"
                     /\ out'.threw
                     /\ store' = store
                     /\ activeTasks' = activeTasks
                ELSE /\ out'.kind = "ok"
                     /\ ~out'.threw
                     /\ activeTasks'[s].progress = p
       /\ \A t \in AllTasks' : t.progress \in 0..100]_vars

\* C12 witness: an update has just been rejected as out of range on a
\* current task whose progress sits on the upper boundary
ProgressBoundsWitness ==
    /\ out.op = "update"
    /\ out.kind = "range"
    /\ store.currentTask.progress = 100
    /\ Len(store.currentTask.updates) = 1

\* C13: a successful update(p, m) on current task T sets T.progress = p,
\* also when p is lower than before, appends exactly one entry
\* {progress: p, message: m} to T.updates, and changes nothing else: the
\* other fields of T, the history and every bound task stay the same.
UpdateFrame ==
    [][\A p \in ApiPercentages, m \in CoreMessages :
          (UpdateProgress(p, m) /\ out'.kind = "ok") =>
              LET T == store.currentTask
                  U == store'.currentTask
              IN  /\ U.progress = p
                  /\ U.updates = Append(T.updates, [progress |-> p, message |-> m])
                  /\ [U EXCEPT !.progress = T.progress, !.updates = T.updates] = T
                  /\ store'.history = store.history
                  /\ activeTasks' = activeTasks]_vars

\* C13 witness: the current task has just been updated to a progress lower
\* than the one recorded by its previous update
UpdateFrameWitness ==
    /\ out.op = "update"
    /\ out.kind = "ok"
    /\ Len(store.currentTask.updates) = 2
    /\ store.currentTask.updates[2].progress < store.currentTask.updates[1].progress
    /\ store.currentTask.progress = store.currentTask.updates[2].progress

RetireUnboundNoop ==
    [][\A s \in Sessions \ DOMAIN activeTasks :
          HandleClosedSession(s) =>
              /\ out'.kind = "noop"
              /\ store' = store
              /\ activeTasks' = activeTasks]_vars

\* C15 witness: a retire has just found nothing bound to its session while
\* the store's current task carries that session id
RetireUnboundWitness ==
    /\ out.op = "retire"
    /\ out.kind = "noop"
    /\ out.arg \notin DOMAIN activeTasks
    /\ store.currentTask.sessionId = out.arg

\* C16: switchCurrent(s) throws not-found and leaves the store unchanged
\* when no task is bound to s; otherwise it makes the task bound to s the
\* store's current task whatever was current before, raising no conflict,
\* and leaves history and the map unchanged.
SwitchCurrent ==
    [][\A s \in Sessions :
          SetCurrentTaskFromSession(s) =>
              IF s \notin DOMAIN activeTasks
              THEN /\ out'.kind = "notfound"
                   /\ out'.threw
                   /\ store' = store
                   /\ activeTasks' = activeTasks
              ELSE /\ out'.kind = "ok"
                   /\ ~out'.threw
                   /\ store'.currentTask = activeTasks[s]
                   /\ out'.ret = activeTasks[s]
                   /\ store'.history = store.history
                   /\ activeTasks' = activeTasks]_vars

\* C16 witness: a switch has just made the task of its session current
\* while a task of another session is bound as well
SwitchCurrentWitness ==
    /\ out.op = "switch"
    /\ out.kind = "ok"
    /\ store.currentTask = out.ret
    /\ store.currentTask.sessionId = out.arg
    /\ DOMAIN activeTasks = Sessions

----------------------------------------------------------------------------
(* Properties of task records                                               *)

TerminalStatuses == {"completed", "stopped"}

\* C17: terminal states are final. Once a task id has been recorded with
\* status completed or stopped, no later operation produces a record of
\* that id (in history, in the current slot or in the map) with a different
\* status, a different progress or a longer updates sequence.
TerminalFinal ==
    [][\A r \in AllTasks : r.status \in TerminalStatuses =>
          \A q \in AllTasks' \ AllTasks : q.id = r.id =>
              /\ q.status = r.status
              /\ q.progress = r.progress
              /\ Len(q.updates) <= Len(r.updates)]_vars

\* C18: every task in history, in the current slot or in the map with status
\* completed has progress 100 and endTime set, every stopped task has
\* endTime set, and every in-progress task has no endTime.
StatusFields ==
    \A t \in AllTasks \ {Null} :
        /\ t.status = "completed" => t.progress = 100 /\ t.endTime = "set"
        /\ t.status = "stopped" => t.endTime = "set"
        /\ t.status = "in-progress" => t.endTime = "absent"

\* C18 witness: history holds a completed and a retired session task while
\* another task is in progress
StatusFieldsWitness ==
    /\ \E i \in DOMAIN store.history : store.history[i].status = "completed"
    /\ \E i \in DOMAIN store.history :
          /\ store.history[i].status = "stopped"
          /\ store.history[i].sessionId \in Sessions
    /\ \E t \in AllTasks : t.status = "in-progress"

\* C19: a session id identifies at most one active task at a time: among the
\* store's current task and the tasks in the map, no two in-progress tasks
\* with distinct ids carry the same session id.
OneActiveTaskPerSession ==
    LET active == {t \in {store.currentTask} \cup
                            {activeTasks[s] : s \in DOMAIN activeTasks} :
                      t.status = "in-progress" /\ t.sessionId \in Sessions}
    IN  \A t, u \in active : t.sessionId = u.sessionId => t.id = u.id

\* C20: history is append-only at its head: across every step, interleaved
\* complete, stop and retireForSession included, the persisted history after
\* the step is the history before it with zero or more entries put in front.
HistoryAppendOnly ==
    [][\E k \in 0..Len(store'.history) :
          SubSeq(store'.history, k + 1, Len(store'.history)) = store.history]_vars

----------------------------------------------------------------------------
(* Properties of persistence and of the session bindings                    *)

StoreTasks == {store.currentTask} \cup ToSet(store.history)

\* C21: every mutation is persisted before it is reported successful:
\* whenever an operation returns a task as its successful result, the store
\* at that moment already contains that task as created or modified.
PersistedBeforeReported ==
    (out.kind \in {"ok", "existing"} /\ out.ret # Null) => out.ret \in StoreTasks

\* C26: only one task can be active at a time: counting the store's current
\* task together with all tasks held in the map, at most one distinct task
\* has status in-progress.
OneActiveTask ==
    Cardinality({t.id : t \in {u \in {store.currentTask} \cup
                                    {activeTasks[s] : s \in DOMAIN activeTasks} :
                                 u.status = "in-progress"}}) <= 1

\* C28: a process restart keeps the session binding of the task marked
\* current: right after the restart, createForSession for that task's
\* session returns that same task instead of a new one, and retireForSession
\* for that session retires it and clears current.
RestartKeepsCurrentBinding ==
    [][\A s \in Sessions :
          (out.op = "restart" /\ store.currentTask.sessionId = s) =>
              /\ CreateTaskForSession(s) => out'.ret.id = store.currentTask.id
              /\ HandleClosedSession(s) =>
                    /\ store'.currentTask = Null
                    /\ store'.history # store.history
                    /\ store'.history[1].id = store.currentTask.id
                    /\ store'.history[1].status = "stopped"]_vars

----------------------------------------------------------------------------
(* Properties of the monitoring loop                                        *)

\* C24: a change report is delivered to the consumer exactly once for each
\* tick whose diff has at least one appeared or disappeared session, and
\* never for a tick whose diff is empty.
ReportPerChangedTick ==
    [][out'.op = "tick" =>
          (out'.delivered <=>
              (out'.newSessions # <<>> \/ out'.closedSessions # <<>>))]_vars

\* C24 witness: a tick that saw a session disappear has delivered its report
ReportPerChangedTickWitness ==
    /\ out.op = "tick"
    /\ out.delivered
    /\ out.closedSessions # <<>>
    /\ out.closedTasks # <<>>

\* C27: the diff is computed against one snapshot. In every poll, under any
\* interleaving of polls, appeared and disappeared are both computed against
\* the snapshot as it was when the probe returned, and the snapshot is
\* replaced as a whole in that same step; no other step changes it.
DiffAgainstOneSnapshot ==
    [][/\ out'.op = "tick" =>
             LET old == ToSet(lastKnownSessions)
                 cur == ToSet(out'.allSessions)
             IN  /\ out'.before = lastKnownSessions
                 /\ ToSet(out'.newSessions) = cur \ old
                 /\ ToSet(out'.closedSessions) = old \ cur
                 /\ ToSet(lastKnownSessions') = cur
       /\ lastKnownSessions' # lastKnownSessions => out'.op = "tick"]_vars

\* C27 witness: a poll has reported an appeared and a disappeared session
\* while the probe of another poll is outstanding
DiffAgainstOneSnapshotWitness ==
    /\ out.op = "tick"
    /\ out.newSessions # <<>>
    /\ out.closedSessions # <<>>
    /\ \E t \in TickIds : ticks[t].pc = "probing"

\* C29: a hung probe cannot stall the loop. While the probe of tick h is
\* outstanding, a timer firing still starts a tick in a free slot, and every
\* other tick can take its next step: its probe can return, and its appeared
\* and disappeared sessions are processed up to the report.
HungProbeDoesNotStall ==
    \A h \in TickIds : ticks[h].pc = "probing" =>
        /\ (sessionPollingInterval = 1 /\ \E u \in TickIds : ticks[u].pc = "idle")
              => ENABLED (\E u \in TickIds : TimerFires(u))
        /\ \A u \in TickIds \ {h} :
              /\ ticks[u].pc = "probing"
                    => ENABLED (\E probe \in ProbeResults : ProbeReturns(u, probe))
              /\ (ticks[u].pc = "acting" /\ clock < MaxTasks)
                    => ENABLED (TickCreate(u) \/ TickRetireMark(u) \/ TickReport(u))
              /\ (ticks[u].pc = "retireRead" /\ Len(store.history) < MaxHistory)
                    => ENABLED TickRetireRead(u)
              /\ ticks[u].pc = "retireWrite" => ENABLED TickRetireWrite(u)

\* C29 witness: the probe of the first tick is still outstanding while a
\* later tick has created the tasks of its appeared sessions and reported
HungProbeWitness ==
    /\ ticks[1].pc = "probing"
    /\ out.op = "report"
    /\ out.newTasks # <<>>
    /\ DOMAIN activeTasks # {}

----------------------------------------------------------------------------
(* Properties of a manual task's whole life (SpecScenario)                  *)

\* C30: starting from a store with no current task, start(n) followed by
\* valid updates (p1,m1)...(pk,mk) and then complete, with nothing else in
\* between, ends with current = null and history[0] having name n, status
\* completed, progress 100 and updates exactly (p1,m1)...(pk,mk) in call
\* order; the earlier history follows unchanged.
ScenarioResult ==
    [][\A name \in Names, calls \in UpdateSequences, message \in Messages :
          StartUpdateComplete(name, calls, message) =>
              /\ store'.currentTask = Null
              /\ store'.history # <<>>
              /\ store'.history[1].name = name
              /\ store'.history[1].status = "completed"
              /\ store'.history[1].progress = 100
              /\ store'.history[1].updates = calls
              /\ Tail(store'.history) = store.history]_vars

\* C30 witness: a task that received two different updates, the second one
\* lower than the first, has been completed
ScenarioWitness ==
    /\ out.op = "complete"
    /\ store.currentTask = Null
    /\ store.history # <<>>
    /\ Len(store.history[1].updates) = 2
    /\ store.history[1].updates[2].progress < store.history[1].updates[1].progress
    /\ store.history[1].updates[1].message # store.history[1].updates[2].message
    /\ store.history[1].progress = 100

----------------------------------------------------------------------------
(* Properties under failing I/O (SpecFault)                                 *)

\* C22: a store failure means not-applied: if the store save fails during
\* retireForSession, updateForSession or switchCurrent, then afterwards the
\* persisted store, the map and the bound task's status, endTime, progress
\* and updates are exactly as they were before the operation began.
StoreFailureNotApplied ==
    [][out'.kind = "failed" =>
          /\ store' = store
          /\ activeTasks' = activeTasks]_vars

IndexOf(seq, x) == CHOOSE i \in DOMAIN seq : seq[i] = x

\* C23: partial-failure isolation. Within one cycle, when creating or
\* retiring the task of one session fails, every other appeared session
\* still has its task created and reported, and every other disappeared
\* session still has its bound task retired: out of the map and in history.
PartialFailureIsolation ==
    [][\A probe \in ProbeResults, failing \in SUBSET Sessions :
          MonitorTickIO(probe, failing) =>
              /\ \A s \in ToSet(out'.newSessions) :
                    /\ s \in DOMAIN activeTasks'
                    /\ s \notin failing => Contains(out'.newTasks, activeTasks'[s])
              /\ \A s \in ToSet(out'.closedSessions) \ failing :
                    s \in DOMAIN activeTasks =>
                        /\ s \notin DOMAIN activeTasks'
                        /\ Contains(store'.history, retireMark(activeTasks[s]))
                        /\ Contains(out'.closedTasks, retireMark(activeTasks[s]))]_vars

\* C23 witness: in one cycle the retire of a session failed (its task is
\* still in the map, marked stopped) and the session after it was retired
PartialFailureWitness ==
    /\ out.op = "tick"
    /\ \E s, u \in ToSet(out.closedSessions) :
          /\ IndexOf(out.closedSessions, s) < IndexOf(out.closedSessions, u)
          /\ s \in DOMAIN activeTasks
          /\ activeTasks[s].status = "stopped"
          /\ u \notin DOMAIN activeTasks
          /\ \E i \in DOMAIN store.history : store.history[i].sessionId = u

\* C25: in each change report newTasks holds the tasks createForSession
\* returned for the tick's appeared sessions, and closedTasks holds exactly
\* the tasks retired in that tick: each has status stopped, is in the
\* persisted history and is no longer in the map when the report is handed
\* over.
ReportLists ==
    (out.op = "tick" /\ out.delivered) =>
        /\ \A i \in DOMAIN out.newTasks :
              out.newTasks[i].sessionId \in ToSet(out.newSessions)
        /\ \A i \in DOMAIN out.closedTasks :
              /\ out.closedTasks[i].status = "stopped"
              /\ Contains(store.history, out.closedTasks[i])
              /\ \/ out.closedTasks[i].sessionId \notin DOMAIN activeTasks
                 \/ activeTasks[out.closedTasks[i].sessionId].id
                        # out.closedTasks[i].id

----------------------------------------------------------------------------
(* Manual updates and their desktop notification (SpecNotify)               *)

NotifyPercentages == {-1, 0, 24, 25, 50, 101}

\* mutant: a trigger on every increase, as the "+change%" console line
progressNotificationOnIncrease(notifications, previousProgress, percentage) ==
    notifications /\ percentage - previousProgress > 0

\* updateProgress: if (config.notifications && change >= 25) notifier.notify
progressNotification(notifications, previousProgress, percentage) ==
    notifications /\ percentage - previousProgress >= 25

\* updateProgress with the notification it raises; notifications is the
\* setting loadConfig returns to this call
UpdateProgressNotify(percentage, message, notifications) ==
    /\ IF IsNull(store.currentTask)
       THEN /\ out' = Outcome("update", "notfound", Null, Null, FALSE,
                              ipcHandle(FALSE))
            /\ UNCHANGED <<store, updateCount>>
       ELSE IF OutOfRange(percentage)
       THEN /\ out' = Outcome("update", "range", Null, Null, FALSE,
                              ipcHandle(FALSE))
            /\ UNCHANGED <<store, updateCount>>
       ELSE LET previousProgress == store.currentTask.progress
            IN  /\ updateCount < MaxUpdates
                /\ updateCount' = updateCount + 1
                /\ store' = updateProgressData(store, percentage, message)
                /\ out' = [Outcome("update", "ok", store'.currentTask, Null,
                                   FALSE, ipcHandle(FALSE))
                             EXCEPT !.notified =
                                 progressNotification(notifications,
                                                      previousProgress,
                                                      percentage)]
    /\ UNCHANGED <<activeTasks, clock, registry, inFlight>>

NextNotify ==
    \/ \E name \in CoreNames : StartTask(name)
    \/ \E p \in NotifyPercentages, m \in CoreMessages, n \in BOOLEAN :
          UpdateProgressNotify(p, m, n)
    \/ StopTask

SpecNotify == Init /\ [][NextNotify]_vars

\* C31: the progress notification fires on a successful update exactly when
\* notifications are enabled and the new progress minus the progress held
\* immediately before the update is at least 25; never on a decrease, on a
\* smaller increase or on a rejected update.
NotifyTrigger ==
    [][\A p \in NotifyPercentages, m \in CoreMessages, n \in BOOLEAN :
          UpdateProgressNotify(p, m, n) =>
              (out'.notified <=>
                   /\ out'.kind = "ok"
                   /\ n
                   /\ p - store.currentTask.progress >= 25)]_vars

\* C31 witness: an update from 25 to 50 raised the notification
NotifyTriggerWitness ==
    /\ out.op = "update"
    /\ out.notified
    /\ ~IsNull(store.currentTask)
    /\ Len(store.currentTask.updates) = 2
    /\ store.currentTask.updates[1].progress = 25
    /\ store.currentTask.updates[2].progress = 50

----------------------------------------------------------------------------
(* WarpSessionManager.extractProjectName (SpecProject)                      *)

MaxPathLen == 3

\* directory names a working directory is made of
Segments == {"home", "my-app", "src", "lib", ".git", "projects"}

\* a working directory: what it starts with ("~", "/" or nothing) and its
\* '/'-separated names; "", "~" and "/" are the three with no names
WorkingDirs ==
    {[prefix |-> x, parts |-> q] :
        x \in {"", "~", "/"},
        q \in UNION {[1..n -> Segments] : n \in 0..MaxPathLen}}

\* process.env.HOME, split
HomeParts == <<"home", "user">>

Denylist == {"src", "lib", "bin", "node_modules", ".git"}

projectIndicators == {"src", "projects", "code", "development", "dev", "work"}

\* formatProjectName on the names in use: '-' and '_' become spaces, the
\* first letter of every word is upper-cased, the result is trimmed
formatProjectName(name) ==
    CASE name = "home" -> "Home"
      [] name = "user" -> "User"
      [] name = "my-app" -> "My App"
      [] name = "src" -> "Src"
      [] name = "lib" -> "Lib"
      [] name = ".git" -> ".Git"
      [] name = "projects" -> "Projects"
      [] name = "Unknown Project" -> "Unknown Project"

\* workingDir.replace(/^~/, HOME).split('/').filter(part => part.length > 0)
pathParts(workingDir) ==
    IF workingDir.prefix = "~" THEN HomeParts \o workingDir.parts
    ELSE workingDir.parts

\* the for loop of extractProjectName from index i downwards, then the
\* return after it
RECURSIVE extractFrom(_, _)
extractFrom(parts, i) ==
    IF i = 0
    THEN formatProjectName(IF parts = <<>> THEN "Unknown Project"
                           ELSE parts[Len(parts)])
    ELSE IF parts[i] \in Denylist THEN extractFrom(parts, i - 1)
    ELSE IF i > 1 /\ parts[i - 1] \in projectIndicators
    THEN formatProjectName(parts[i])
    ELSE IF i = Len(parts) THEN formatProjectName(parts[i])
    ELSE extractFrom(parts, i - 1)

extractProjectName(workingDir) ==
    IF workingDir.parts = <<>>
    THEN "General Tasks"
    ELSE extractFrom(pathParts(workingDir), Len(pathParts(workingDir)))

ExtractProjectName(workingDir) ==
    /\ out' = [Outcome("extract", "ok", Null, Null, FALSE, "none") EXCEPT
                  !.workingDir = workingDir,
                  !.projectName = extractProjectName(workingDir)]
    /\ UNCHANGED <<store, activeTasks, clock, updateCount, registry, inFlight>>

NextProject == \E workingDir \in WorkingDirs : ExtractProjectName(workingDir)

SpecProject == Init /\ [][NextProject]_vars

\* C32: project-name derivation skips denylisted directories.
\* extractProjectName returns "General Tasks" for an empty, "~" or "/"
\* working directory, and for every other path with at least one segment
\* outside the denylist the name is derived from a segment outside it.
DenylistSkipped ==
    out.op = "extract" =>
        LET parts == pathParts(out.workingDir)
            outside == {i \in DOMAIN parts : parts[i] \notin Denylist}
        IN  IF out.workingDir.parts = <<>>
            THEN out.projectName = "General Tasks"
            ELSE outside # {} =>
                     \E i \in outside :
                         out.projectName = formatProjectName(parts[i])

----------------------------------------------------------------------------
(* Properties of the store's contents over time                             *)

\* C33: no manually started task is ever dropped. A task created by start
\* (it carries no session id) that the store holds, as current task or in
\* history, is still held by the store after every step; in particular
\* after switchCurrent issued while it is current.
ManualTaskKept ==
    [][\A t \in StoreTasks :
          (~IsNull(t) /\ t.sessionId = "") =>
              \E u \in StoreTasks' : u.id = t.id]_vars

\* C33, as the code has it: a manually started task leaves the store only
\* when it is the current task and a successful switchCurrent overwrites it
\* with the task bound to the session; every other step keeps it.
ManualTaskKeptUnlessSwitched ==
    [][\A t \in StoreTasks :
          (~IsNull(t) /\ t.sessionId = "") =>
              \/ \E u \in StoreTasks' : u.id = t.id
              \/ /\ out'.op = "switch"
                 /\ out'.kind = "ok"
                 /\ t = store.currentTask
                 /\ store'.currentTask = activeTasks[out'.arg]]_vars

\* C33 witness: a switchCurrent has succeeded and the store still holds a
\* manually started task, in its history
ManualTaskKeptWitness ==
    /\ out.op = "switch"
    /\ out.kind = "ok"
    /\ \E i \in DOMAIN store.history : store.history[i].sessionId = ""

\* C34: history holds each task at most once. No two history entries have
\* the same task id, also after a session-bound task was made current,
\* completed or stopped manually, and its session then disappeared.
HistoryIdsUnique ==
    \A i, j \in DOMAIN store.history :
        i # j => store.history[i].id # store.history[j].id

\* C35: the persisted current task and the in-memory bound task never
\* diverge. Whenever the store's current task carries session id s and the
\* map has a task for s, both have the same id, progress, status and
\* updates, after any mix of manual update and updateForSession calls.
CurrentMatchesBound ==
    (~IsNull(store.currentTask) /\ store.currentTask.sessionId \in DOMAIN activeTasks) =>
        LET bound == activeTasks[store.currentTask.sessionId]
        IN  /\ bound.id = store.currentTask.id
            /\ bound.progress = store.currentTask.progress
            /\ bound.status = store.currentTask.status
            /\ bound.updates = store.currentTask.updates

----------------------------------------------------------------------------
(* Properties of the monitoring loop at rest and over time                  *)

AtRest ==
    /\ manual.pc = "idle"
    /\ sessionOp.pc = "idle"
    /\ \A t \in TickIds : ticks[t] = IdleTick

\* C36: map and snapshot agree at rest. Whenever automatic task management
\* is running and no tick or session-bound operation is in flight, the
\* session ids with a task in the map are exactly the registry snapshot,
\* and every task in the map has status in-progress.
MapMatchesSnapshot ==
    (sessionPollingInterval = 1 /\ AtRest) =>
        /\ DOMAIN activeTasks = ToSet(lastKnownSessions)
        /\ \A s \in DOMAIN activeTasks : activeTasks[s].status = "in-progress"

\* C37: a session that stays open is never retired. A session of the
\* snapshot that no successful probe output has left out since it appeared
\* is not reported as disappeared by a poll, and its bound task is not
\* stopped by it.
OpenSessionNeverRetired ==
    out.op \in PollOps =>
        \A s \in ToSet(out.before) :
            (out.failed \/ Contains(out.allSessions, s)) =>
                /\ ~Contains(out.closedSessions, s)
                /\ s \in DOMAIN activeTasks => activeTasks[s].status # "stopped"
                /\ \A i \in DOMAIN out.closedTasks : out.closedTasks[i].sessionId # s

====
